---- MODULE Spec2Model ----
(***************************************************************************)
(* A model of seekgzip: the zran-derived index builder (build_index,      *)
(* addpoint), the random-access extractor (extract, findpoint), the index *)
(* codec and session API of seekgzip.c, and the reader wrapper of         *)
(* export.cpp.                                                             *)
(*                                                                         *)
(* The sizes of the source are scaled down so that every case of the      *)
(* code is reached by small streams: WINSIZE (32768), SPAN (1048576),     *)
(* CHUNK (16384) and the initial list capacity (8) keep their order       *)
(* CHUNK <= WINSIZE < SPAN, and a compressed stream is a gzip header, a   *)
(* sequence of deflate blocks laid out bit by bit, and a trailer.          *)
(***************************************************************************)
EXTENDS Integers, Sequences, FiniteSets, TLC

(* ----------------------------- constants ------------------------------ *)

SPAN == 3
WINSIZE == 2
CHUNK == 2
LISTSIZE == 1

Z_OK == 0
Z_STREAM_END == 1
Z_NEED_DICT == 2
Z_ERRNO == -1
Z_DATA_ERROR == -3
Z_MEM_ERROR == -4
Z_BUF_ERROR == -5
Z_BLOCK == 5
Z_NO_FLUSH == 0

SEEKGZIP_SUCCESS == 0
SEEKGZIP_ERROR == -1024
SEEKGZIP_OPENERROR == -1023
SEEKGZIP_READERROR == -1022
SEEKGZIP_WRITEERROR == -1021
SEEKGZIP_DATAERROR == -1020
SEEKGZIP_OUTOFMEMORY == -1019
SEEKGZIP_IMCOMPATIBLE == -1018
SEEKGZIP_ZLIBERROR == -1017

OFFSIZE == 8

(* The layout of the compressed stream: a header of HDRBYTES bytes, then   *)
(* per block a block header of BHDRBITS bits (BFINAL, BTYPE), SYMBITS bits *)
(* per symbol and EOBBITS bits for the end-of-block code, then, from the   *)
(* next byte boundary, a trailer of TRAILERBYTES bytes.                    *)
HDRBYTES == 1
TRAILERBYTES == 1
BHDRBITS == 3
SYMBITS == 3
EOBBITS == 2

(* ------------------------------- bounds ------------------------------- *)

MaxBlocks == 2
MaxSize == 2
MaxPast == 2
MaxPoints == 3

MaxBlockLen == SPAN + 1

(* ------------------------- the compressed stream ---------------------- *)

Min(a, b) == IF a < b THEN a ELSE b
Max(a, b) == IF a < b THEN b ELSE a
CeilDiv8(n) == (n + 7) \div 8

RECURSIVE SeqsUpTo(_, _)
SeqsUpTo(S, n) ==
    IF n = 0 THEN {<<>>}
    ELSE LET shorter == SeqsUpTo(S, n - 1)
         IN  shorter \cup {Append(s, x) : s \in {t \in shorter : Len(t) = n - 1}, x \in S}

(* A stream is the sequence of its blocks' uncompressed lengths, the last  *)
(* block being the final one, and whether its symbols use back-references  *)
(* into the preceding WINSIZE bytes.                                       *)
Files ==
    {[blocks |-> b, refs |-> r] :
        b \in (SeqsUpTo(0..MaxBlockLen, MaxBlocks) \ {<<>>}), r \in BOOLEAN}

RECURSIVE SumTo(_, _)
SumTo(s, n) == IF n = 0 THEN 0 ELSE s[n] + SumTo(s, n - 1)

NBlocks(f) == Len(f.blocks)
\* uncompressed offset at which block j starts (j = NBlocks + 1: the end)
OutStart(f, j) == SumTo(f.blocks, j - 1)
StreamLen(f) == SumTo(f.blocks, NBlocks(f))
HdrBits == 8 * HDRBYTES
BlockBits(n) == BHDRBITS + n * SYMBITS + EOBBITS
\* bit position at which block j starts (j = NBlocks + 1: end of deflate data)
BlockStart(f, j) ==
    HdrBits + SumTo([i \in 1..NBlocks(f) |-> BlockBits(f.blocks[i])], j - 1)
TrailerStart(f) == 8 * CeilDiv8(BlockStart(f, NBlocks(f) + 1))
FileBytes(f) == CeilDiv8(BlockStart(f, NBlocks(f) + 1)) + TRAILERBYTES

(* The symbol that produces uncompressed byte i: a literal, whose value is *)
(* unique to its position, or a copy of the byte dist back.                *)
SymDist(f, i) == IF f.refs /\ i >= WINSIZE THEN WINSIZE ELSE 0
RECURSIVE Plain(_, _)
Plain(f, i) == IF SymDist(f, i) = 0 THEN i ELSE Plain(f, i - SymDist(f, i))
\* the full decompression of f
Decompressed(f) == [i \in 1..StreamLen(f) |-> Plain(f, i - 1)]


(* --------------------------- the inflater ----------------------------- *)

(* A z_stream with its inflate state.  next_in is the file offset of the   *)
(* next input byte, pos the bit position of the stream decoded so far,     *)
(* blk and sym the block and the symbol within it being decoded, last the  *)
(* BFINAL flag of the block header read last, hist the sliding window.     *)
NoStream ==
    [avail_in |-> 0, next_in |-> 0, avail_out |-> 0, data_type |-> 0,
     mode |-> "NONE", blk |-> 0, sym |-> 0, pos |-> 0, last |-> FALSE,
     hist |-> <<>>, raw |-> FALSE]

\* inflateInit2(&strm, 47) and inflateInit2(&strm, -15)
InflateInit2(windowBits) ==
    [NoStream EXCEPT !.mode = IF windowBits < 0 THEN "TYPEDO" ELSE "HEAD",
                     !.raw = windowBits < 0]

KeepLast(h, n) == IF Len(h) <= n THEN h ELSE SubSeq(h, Len(h) - n + 1, Len(h))

\* One call's decoding: the stream is decoded item by item until input runs
\* out (starved), output space runs out, a block boundary is reached under
\* Z_BLOCK, or the stream ends.
RECURSIVE Decode(_, _, _, _, _)
Decode(f, s, limit, flush, out) ==
    LET Leave(t, r, b, st) ==
            [s |-> t, out |-> out, ret |-> r, block |-> b, starved |-> st]
        Need(n) == s.pos + n > limit
    IN  CASE s.mode = "DONE" -> Leave(s, Z_STREAM_END, FALSE, FALSE)
          [] s.mode = "BAD"  -> Leave(s, Z_DATA_ERROR, FALSE, FALSE)
          [] s.mode = "HEAD" ->
                IF Need(HdrBits) THEN Leave(s, Z_OK, FALSE, TRUE)
                ELSE LET t == [s EXCEPT !.pos = @ + HdrBits, !.mode = "TYPEDO"]
                     IN  IF flush = Z_BLOCK THEN Leave(t, Z_OK, TRUE, FALSE)
                         ELSE Decode(f, t, limit, flush, out)
          [] s.mode = "TYPEDO" ->
                IF s.last
                THEN Decode(f, [s EXCEPT !.pos = 8 * CeilDiv8(@),
                                         !.mode = IF s.raw THEN "DONE" ELSE "CHECK"],
                            limit, flush, out)
                ELSE IF s.blk >= NBlocks(f) THEN Leave([s EXCEPT !.mode = "BAD"], Z_DATA_ERROR, FALSE, FALSE)
                ELSE IF Need(BHDRBITS) THEN Leave(s, Z_OK, FALSE, TRUE)
                ELSE Decode(f, [s EXCEPT !.pos = @ + BHDRBITS, !.blk = @ + 1, !.sym = 0,
                                         !.last = (s.blk + 1 = NBlocks(f)),
                                         !.mode = "LEN"],
                            limit, flush, out)
          [] s.mode = "LEN" ->
                IF s.sym < f.blocks[s.blk]
                THEN IF Need(SYMBITS) THEN Leave(s, Z_OK, FALSE, TRUE)
                     ELSE Decode(f, [s EXCEPT !.pos = @ + SYMBITS, !.mode = "LIT"],
                                 limit, flush, out)
                ELSE IF Need(EOBBITS) THEN Leave(s, Z_OK, FALSE, TRUE)
                     ELSE LET t == [s EXCEPT !.pos = @ + EOBBITS, !.mode = "TYPEDO"]
                          IN  IF flush = Z_BLOCK THEN Leave(t, Z_OK, TRUE, FALSE)
                              ELSE Decode(f, t, limit, flush, out)
          [] s.mode = "LIT" ->
                LET i == OutStart(f, s.blk) + s.sym
                    d == SymDist(f, i)
                IN  IF s.avail_out = 0 THEN Leave(s, Z_OK, FALSE, FALSE)
                    ELSE IF d > Len(s.hist)
                    THEN Leave([s EXCEPT !.mode = "BAD"], Z_DATA_ERROR, FALSE, FALSE)
                    ELSE LET b == IF d = 0 THEN i ELSE s.hist[Len(s.hist) - d + 1]
                         IN  Decode(f, [s EXCEPT !.sym = @ + 1, !.mode = "LEN",
                                                 !.avail_out = @ - 1,
                                                 !.hist = KeepLast(Append(@, b), WINSIZE)],
                                    limit, flush, Append(out, b))
          [] s.mode = "CHECK" ->
                IF Need(8 * TRAILERBYTES) THEN Leave(s, Z_OK, FALSE, TRUE)
                ELSE Decode(f, [s EXCEPT !.pos = @ + 8 * TRAILERBYTES, !.mode = "DONE"],
                            limit, flush, out)

\* inflate(&strm, flush): the stream after the call, the bytes written to
\* next_out, and the return code.
Inflate(f, s, flush) ==
    LET r == Decode(f, s, 8 * (s.next_in + s.avail_in), flush, <<>>)
        nin == IF r.starved THEN s.next_in + s.avail_in
               ELSE Max(s.next_in, CeilDiv8(r.s.pos))
        idle == nin = s.next_in /\ r.out = <<>>
    IN  [strm |-> [r.s EXCEPT !.next_in = nin,
                             !.avail_in = s.next_in + s.avail_in - nin,
                             !.data_type = (8 * nin - r.s.pos)
                                           + (IF r.s.last THEN 64 ELSE 0)
                                           + (IF r.block THEN 128 ELSE 0)],
         out |-> r.out,
         ret |-> IF r.ret = Z_OK /\ idle THEN Z_BUF_ERROR ELSE r.ret]

Bit7(x) == (x \div 128) % 2 = 1
Bit6(x) == (x \div 64) % 2 = 1

\* data_type & 7 without the mask
Low3Unmasked(x) == x

\* data_type & 7
Low3(x) == x % 8

(* ------------------------------ the state ----------------------------- *)

VARIABLES
    file,   \* the compressed file the target path names
    disk,   \* the index file beside it: whether it exists, and its fields
    pc,     \* where the call in progress stands ("idle": no call)
    bi,     \* the frame of build_index while seekgzip_build runs
    ex,     \* the frame of extract while seekgzip_read runs
    zs,     \* the session object (seekgzip_t) and how its owner holds it
    out     \* what the call completed last returned

vars == <<file, disk, pc, bi, ex, zs, out>>

\* indeterminate bytes: the contents of storage never written
Garbage == {0, 255}

(* --------------------------- the access list -------------------------- *)

NullIndex == [null |-> TRUE, have |-> 0, size |-> 0, list |-> <<>>]

\* addpoint storing the ring as it lies, without rotating it
AddPointUnrotated(index, bits, in, o, left, window, fail) ==
    LET fresh == [null |-> FALSE, have |-> 0, size |-> LISTSIZE, list |-> <<>>]
        grown == [index EXCEPT !.size = 2 * @]
        base == IF index.null THEN fresh
                ELSE IF index.have = index.size THEN grown ELSE index
        allocates == index.null \/ index.have = index.size
        next == [out |-> o, in |-> in, bits |-> bits, window |-> window]
    IN  IF fail /\ allocates
        THEN [index |-> NullIndex, frees |-> IF index.null THEN 0 ELSE 1]
        ELSE [index |-> [base EXCEPT !.list = Append(@, next), !.have = @ + 1],
              frees |-> 0]

\* addpoint(): the list with the point appended, or NULL after an allocation
\* failure (fail), with the list freed if there was one.  left is the room
\* left in the ring `window`, whose oldest byte therefore sits at WINSIZE - left.
AddPoint(index, bits, in, o, left, window, fail) ==
    LET fresh == [null |-> FALSE, have |-> 0, size |-> LISTSIZE, list |-> <<>>]
        grown == [index EXCEPT !.size = 2 * @]
        base == IF index.null THEN fresh
                ELSE IF index.have = index.size THEN grown ELSE index
        allocates == index.null \/ index.have = index.size
        linear == [i \in 1..WINSIZE |->
                      IF i - 1 < left THEN window[WINSIZE - left + i]
                      ELSE window[i - left]]
        next == [out |-> o, in |-> in, bits |-> bits, window |-> linear]
    IN  IF fail /\ allocates
        THEN [index |-> NullIndex, frees |-> IF index.null THEN 0 ELSE 1]
        ELSE [index |-> [base EXCEPT !.list = Append(@, next), !.have = @ + 1],
              frees |-> 0]

(* ------------------------------- results ------------------------------ *)

\* What a completed call hands back: its return value, the bytes it
\* delivered, and what it did to the resources it held (inflaters
\* initialised and ended, lists freed, file handles opened and closed).
\* arg and from are the call's argument and the cursor it started from,
\* cause the failure the environment made on the way, fault whether there
\* was one, after whether the call came after the session was closed, uaf
\* whether it used released storage.  at is the point findpoint gave a read
\* (0 for NULL), touched whether the read reached the compressed file, had
\* the number of points a failed build had collected.  term and str are
\* what reader::read makes of a read: the index at which it writes its
\* terminating zero, and the string it returns.
Result(op, ret) ==
    [op |-> op, ret |-> ret, data |-> <<>>, inits |-> 0, ends |-> 0,
     frees |-> 0, opened |-> 0, closed |-> 0, gzopened |-> 0, gzclosed |-> 0,
     built |-> FALSE, arg |-> 0, from |-> 0, code |-> 0, coded |-> FALSE,
     null |-> FALSE, fault |-> FALSE, uaf |-> FALSE, after |-> FALSE,
     cause |-> "none", at |-> 0, touched |-> FALSE, had |-> 0,
     term |-> 0, str |-> <<>>]

NoResult == Result("none", 0)

(* ------------------------------ the builder --------------------------- *)

\* The locals of build_index.  calls counts the returns of inflate (up to
\* the first), emitted tells whether the last return added a point, before
\* is the value `last` had when inflate returned.
NoBuild ==
    [fpos |-> 0, eof |-> FALSE, totin |-> 0, totout |-> 0, last |-> 0,
     index |-> NullIndex, strm |-> NoStream,
     window |-> [i \in 1..WINSIZE |-> 0], frees |-> 0, span |-> 0,
     ret |-> 0, calls |-> 0, emitted |-> FALSE, before |-> 0]

\* the switch of seekgzip_build on build_index's negative result: no case
\* ends in a break, so control falls through every later case
BuildErrorCode(len) ==
    LET r1 == IF len = Z_MEM_ERROR THEN SEEKGZIP_OUTOFMEMORY ELSE SEEKGZIP_SUCCESS
        r2 == IF len \in {Z_MEM_ERROR, Z_DATA_ERROR} THEN SEEKGZIP_DATAERROR ELSE r1
        r3 == IF len \in {Z_MEM_ERROR, Z_DATA_ERROR, Z_ERRNO} THEN SEEKGZIP_READERROR ELSE r2
        r4 == SEEKGZIP_ERROR
    IN  r4

\* build_index_error without the call of free_index
BuildFailKeepsList(frame, len, cause) ==
    /\ out' = [Result("build", BuildErrorCode(len)) EXCEPT
                  !.inits = 1, !.ends = 1,
                  !.frees = frame.frees,
                  !.opened = 1, !.closed = 1, !.arg = len, !.cause = cause,
                  !.fault = TRUE, !.had = bi.index.have]
    /\ bi' = NoBuild
    /\ pc' = "idle"
    /\ UNCHANGED <<file, disk, ex, zs>>

\* build_index_error and seekgzip_build's force_exit: the inflater is ended,
\* the list freed if there is one, the file closed, nothing written.
BuildFail(frame, len, cause) ==
    /\ out' = [Result("build", BuildErrorCode(len)) EXCEPT
                  !.inits = 1, !.ends = 1,
                  !.frees = frame.frees + (IF frame.index.null THEN 0 ELSE 1),
                  !.opened = 1, !.closed = 1, !.arg = len, !.cause = cause,
                  !.fault = TRUE, !.had = bi.index.have]
    /\ bi' = NoBuild
    /\ pc' = "idle"
    /\ UNCHANGED <<file, disk, ex, zs>>

\* seekgzip_build up to build_index's loop: fopen, inflateInit2.
BuildBegin(g, fault) ==
    /\ pc = "idle"
    /\ ~disk.exists
    /\ CASE fault = "fopen" ->
              /\ out' = [Result("build", SEEKGZIP_OPENERROR) EXCEPT
                            !.cause = "fopen", !.fault = TRUE]
              /\ UNCHANGED <<bi, pc>>
         [] fault = "init" ->
              \* build_index returns inflateInit2's error without cleanup to do
              /\ out' = [Result("build", BuildErrorCode(Z_MEM_ERROR)) EXCEPT
                            !.opened = 1, !.closed = 1, !.arg = Z_MEM_ERROR,
                            !.cause = "init", !.fault = TRUE]
              /\ UNCHANGED <<bi, pc>>
         [] OTHER ->
              /\ bi' = [NoBuild EXCEPT !.strm = InflateInit2(47),
                                       !.window = [i \in 1..WINSIZE |-> g],
                                       !.span = SPAN]
              /\ pc' = "bi_fread"
              /\ out' = NoResult
    /\ UNCHANGED <<file, disk, ex, zs>>

\* strm.avail_in = fread(input, 1, CHUNK, in) and the two checks after it.
\* k is what fread returns: less than the chunk when the file is cut short.
BuildFread(k, fault) ==
    /\ pc = "bi_fread"
    /\ k \in 0..Min(CHUNK, FileBytes(file) - bi.fpos)
    /\ bi.eof => k = 0
    /\ LET short == k < Min(CHUNK, FileBytes(file) - bi.fpos)
           frame == [bi EXCEPT !.strm.avail_in = k, !.strm.next_in = bi.fpos,
                               !.fpos = @ + k, !.eof = @ \/ short]
       IN  IF fault = "ferror" THEN BuildFail(frame, Z_ERRNO, "ferror")
           ELSE IF k = 0 THEN BuildFail(frame, Z_DATA_ERROR, "truncated")
           ELSE /\ bi' = frame
                /\ pc' = "bi_inflate"
                /\ UNCHANGED <<file, disk, ex, zs, out>>

\* build_index with the comparison against span made non-strict
EmitsPointAtSpan(data_type, totout, last, span) ==
    Bit7(data_type) /\ ~Bit6(data_type) /\ (totout = 0 \/ totout - last >= span)

\* build_index without the test for the start of the stream
EmitsPointNoFirst(data_type, totout, last, span) ==
    Bit7(data_type) /\ ~Bit6(data_type) /\ totout - last > span

\* build_index without the test for the last block
EmitsPointAtLast(data_type, totout, last, span) ==
    Bit7(data_type) /\ (totout = 0 \/ totout - last > span)

\* whether build_index adds an access point after this return of inflate
EmitsPoint(data_type, totout, last, span) ==
    Bit7(data_type) /\ ~Bit6(data_type) /\ (totout = 0 \/ totout - last > span)

\* the ring `window` after inflate wrote `bytes` at next_out
WriteRing(window, at, bytes) ==
    [i \in 1..WINSIZE |->
        IF i > at /\ i <= at + Len(bytes) THEN bytes[i - at] ELSE window[i]]

\* One pass of the inner loop of build_index: the window reset, inflate under
\* Z_BLOCK, the counters, and the access point if one is due.
BuildInflate(fault) ==
    /\ pc = "bi_inflate"
    /\ LET s0 == IF bi.strm.avail_out = 0
                 THEN [bi.strm EXCEPT !.avail_out = WINSIZE] ELSE bi.strm
           r == Inflate(file, s0, Z_BLOCK)
           s1 == r.strm
           ret0 == CASE fault = "data" -> Z_DATA_ERROR
                     [] fault = "dict" -> Z_NEED_DICT
                     [] fault = "mem" -> Z_MEM_ERROR
                     [] OTHER -> r.ret
           ret == IF ret0 = Z_NEED_DICT THEN Z_DATA_ERROR ELSE ret0
           totin == bi.totin + s0.avail_in - s1.avail_in
           totout == bi.totout + s0.avail_out - s1.avail_out
           window == WriteRing(bi.window, WINSIZE - s0.avail_out, r.out)
           frame == [bi EXCEPT !.strm = s1, !.totin = totin, !.totout = totout,
                               !.window = window, !.ret = ret, !.calls = 1,
                               !.before = bi.last, !.emitted = FALSE]
           emits == EmitsPoint(s1.data_type, totout, bi.last, bi.span)
           added == AddPoint(bi.index, Low3(s1.data_type), totin, totout,
                             s1.avail_out, window, fault = "nomem")
       IN  /\ fault = "dict" => bi.strm.mode = "HEAD"
           /\ fault = "nomem" => (ret = Z_OK /\ emits)
           /\ IF ret \in {Z_MEM_ERROR, Z_DATA_ERROR}
              THEN BuildFail(frame, ret, fault)
              ELSE IF ret = Z_STREAM_END
              THEN /\ bi' = frame
                   /\ pc' = "bi_end"
                   /\ UNCHANGED <<file, disk, ex, zs, out>>
              ELSE IF emits /\ added.index.null
              THEN \* index = addpoint(...) is NULL: addpoint freed the list
                   BuildFail([frame EXCEPT !.frees = @ + added.frees,
                                           !.index = added.index],
                             Z_MEM_ERROR, "nomem")
              ELSE /\ bi' = IF emits
                            THEN [frame EXCEPT !.index = added.index, !.last = totout,
                                               !.emitted = TRUE]
                            ELSE frame
                   /\ pc' = IF s1.avail_in # 0 THEN "bi_inflate" ELSE "bi_fread"
                   /\ UNCHANGED <<file, disk, ex, zs, out>>

(* ---------------------------- the index file -------------------------- *)

NoFile == [exists |-> FALSE, data |-> <<>>]

\* the magic string "ZSEK", byte by byte
Magic == <<90, 83, 69, 75>>

RECURSIVE WritePoints(_)
WritePoints(list) ==
    IF list = <<>> THEN <<>>
    ELSE <<Head(list).out, Head(list).in, Head(list).bits>> \o Head(list).window
         \o WritePoints(Tail(list))

\* what seekgzip_build writes: magic, sizeof(off_t), have, then per point
\* out, in, bits and the WINSIZE bytes of its window
WriteIndex(index) ==
    Magic \o <<OFFSIZE, index.have>> \o WritePoints(index.list)

\* The end of build_index and the rest of seekgzip_build: inflateEnd, the
\* list handed over, the file closed, the index file named, opened, written
\* and closed, the list freed.  The realloc at the end of build_index is
\* not checked: when it fails, index->size is written through NULL.
BuildEnd(fault) ==
    /\ pc = "bi_end"
    /\ LET done == [Result("build", SEEKGZIP_SUCCESS) EXCEPT
                       !.inits = 1, !.ends = 1, !.frees = 1,
                       !.opened = 1, !.closed = 1, !.built = TRUE,
                       !.arg = bi.index.have]
       IN  CASE fault = "nomem" ->
                  /\ out' = [done EXCEPT !.ret = SEEKGZIP_OUTOFMEMORY,
                                         !.cause = fault, !.fault = TRUE]
                  /\ disk' = disk
             [] fault = "gzopen" ->
                  /\ out' = [done EXCEPT !.ret = SEEKGZIP_OPENERROR,
                                         !.cause = fault, !.fault = TRUE]
                  /\ disk' = disk
             [] fault = "realloc" ->
                  /\ out' = [Result("build_index", 0) EXCEPT
                                !.inits = 1, !.ends = 1, !.opened = 1,
                                !.cause = fault, !.fault = TRUE, !.uaf = TRUE]
                  /\ disk' = disk
             [] OTHER ->
                  /\ out' = done
                  /\ disk' = [exists |-> TRUE, data |-> WriteIndex(bi.index)]
    /\ bi' = NoBuild
    /\ pc' = IF fault = "realloc" THEN "crashed" ELSE "idle"
    /\ UNCHANGED <<file, ex, zs>>


(* ------------------------------ the session --------------------------- *)

\* A seekgzip_t and its owner: st is "none" before seekgzip_open, "open"
\* while the object is allocated, "freed" once seekgzip_close released it.
\* The owner holds the raw pointer or a reader of export.cpp; both make the
\* same calls of seekgzip.c until the session is closed, so held says which
\* of the two it is from the close on: "raw" (the pointer now dangles) or
\* "reader" (m_obj is now NULL).  A session made by reader's constructor is
\* held by a "reader" from the start, and its reads are reader::read.  ferr is the error indicator of the FILE,
\* fcloses and zfrees count the fclose and free calls made on the handle and
\* on the object.
NoSession ==
    [st |-> "none", held |-> "owner", index |-> NullIndex,
     offset |-> 0, ferr |-> FALSE, fcloses |-> 0, zfrees |-> 0]

\* index files a target may come with, beside the one seekgzip_build wrote
ForeignIdx ==
    {[exists |-> TRUE, data |-> d] :
        d \in {<<>>, <<90, 83, 69>>, <<90, 83, 69, 88, OFFSIZE, 0>>,
               <<122, 83, 69, 75, OFFSIZE, 0>>, Magic \o <<OFFSIZE \div 2, 0>>}}

GzGetc(data, i) == IF i <= Len(data) THEN data[i] ELSE -1

\* whether the four gzgetc comparisons of seekgzip_open all pass
MagicOk(data) == \A i \in 1..4 : GzGetc(data, i) = Magic[i]

RECURSIVE ReadPoints(_, _, _)
ReadPoints(data, at, n) ==
    IF n = 0 THEN <<>>
    ELSE <<[out |-> data[at + 1], in |-> data[at + 2], bits |-> data[at + 3],
            window |-> SubSeq(data, at + 4, at + 3 + WINSIZE)]>>
         \o ReadPoints(data, at + 3 + WINSIZE, n - 1)

\* the list seekgzip_open reads back from the index file
ReadIndex(data) ==
    [null |-> FALSE, have |-> data[6], size |-> data[6],
     list |-> ReadPoints(data, 6, data[6])]

\* seekgzip_open without the comparison of the recorded size
OffsizeAny(data) == TRUE

\* read_uint32(gz) != sizeof(off_t), negated
OffsizeOk(data) == data[5] = OFFSIZE

\* the value of ret with which seekgzip_open reaches its exit
OpenCode(idx, fault) ==
    CASE fault = "fopen" -> SEEKGZIP_OPENERROR
      [] fault = "nomem_name" -> SEEKGZIP_OUTOFMEMORY
      [] fault = "gzopen" \/ ~idx.exists -> SEEKGZIP_OPENERROR
      [] ~MagicOk(idx.data) -> SEEKGZIP_IMCOMPATIBLE
      [] ~OffsizeOk(idx.data) -> SEEKGZIP_IMCOMPATIBLE
      [] fault \in {"nomem_zs", "nomem_list"} -> SEEKGZIP_OUTOFMEMORY
      [] fault = "gzclose" -> SEEKGZIP_ZLIBERROR
      [] OTHER -> SEEKGZIP_SUCCESS

\* seekgzip_open: the session or NULL, the error code if the caller asked
\* for it, and the handles opened and closed on the way.  holder is who
\* keeps the pointer.
OpenAs(idx, fault, wantcode, holder) ==
    /\ pc = "idle"
    /\ zs.st = "none"
    /\ LET ret == OpenCode(idx, fault)
           fp == IF fault = "fopen" THEN 0 ELSE 1
           gz == IF fault \in {"fopen", "nomem_name", "gzopen"} \/ ~idx.exists
                 THEN 0 ELSE 1
       IN  /\ out' = [Result("open", ret) EXCEPT
                         !.null = ret # SEEKGZIP_SUCCESS,
                         !.coded = wantcode,
                         !.code = IF wantcode THEN ret ELSE 0,
                         !.opened = fp,
                         !.closed = IF ret # SEEKGZIP_SUCCESS THEN fp ELSE 0,
                         !.gzopened = gz,
                         \* the gzclose that failed, then the one of error_exit
                         !.gzclosed = IF ret = SEEKGZIP_ZLIBERROR THEN 2 ELSE gz,
                         !.cause = fault, !.fault = (fault # "none"),
                         !.data = idx.data]
           /\ zs' = IF ret = SEEKGZIP_SUCCESS
                    THEN [NoSession EXCEPT !.st = "open", !.held = holder,
                                           !.index = ReadIndex(idx.data)]
                    ELSE zs
    /\ UNCHANGED <<file, disk, pc, bi, ex>>

\* seekgzip_open called by an owner of whom nothing more is known
Open(idx, fault, wantcode) == OpenAs(idx, fault, wantcode, "owner")

\* reader::reader(filename): seekgzip_open with an errorcode, the pointer
\* kept in m_obj (an exception when it is NULL)
ReaderNew(idx, fault) == OpenAs(idx, fault, TRUE, "reader")

\* the owner's pointer leads to a live object
Live == zs.st = "open"

\* seekgzip_seek (reader::seek calls it while m_obj is set)
Seek(o) ==
    /\ pc = "idle"
    /\ Live
    /\ zs' = [zs EXCEPT !.offset = o]
    /\ out' = [Result("seek", 0) EXCEPT !.arg = o]
    /\ UNCHANGED <<file, disk, pc, bi, ex>>

\* seekgzip_tell (reader::tell calls it while m_obj is set)
Tell ==
    /\ pc = "idle"
    /\ Live
    /\ out' = Result("tell", zs.offset)
    /\ UNCHANGED <<file, disk, pc, bi, ex, zs>>

\* seekgzip_close, called on the raw pointer or by reader::close, which then
\* sets m_obj to NULL.  What the freed object held is no longer defined.
Close(how) ==
    /\ pc = "idle"
    /\ Live
    /\ zs' = [NoSession EXCEPT !.st = "freed", !.held = how,
                              !.fcloses = 1, !.zfrees = 1]
    /\ out' = [Result("close", 0) EXCEPT !.closed = 1, !.frees = 1]
    /\ UNCHANGED <<file, disk, pc, bi, ex>>

\* a reader whose close leaves m_obj set: every later method goes to the
\* freed object
ReaderKeepsObject(op) ==
    /\ pc = "idle"
    /\ zs.st = "freed" /\ zs.held = "reader"
    /\ zs.fcloses < 2
    /\ out' = [Result(op, 0) EXCEPT !.uaf = TRUE, !.after = TRUE]
    /\ zs' = IF op = "close" THEN [zs EXCEPT !.fcloses = @ + 1, !.zfrees = @ + 1]
             ELSE zs
    /\ UNCHANGED <<file, disk, pc, bi, ex>>

\* The methods of a reader whose m_obj is NULL: close and seek do nothing,
\* tell returns -1, read returns the empty string.
ReaderAfterClose(op) ==
    /\ pc = "idle"
    /\ zs.st = "freed" /\ zs.held = "reader"
    /\ out' = [Result(op, IF op = "tell" THEN -1 ELSE 0) EXCEPT !.after = TRUE]
    /\ UNCHANGED <<file, disk, pc, bi, ex, zs>>

\* seekgzip_seek, _tell, _read and _close on a pointer seekgzip_close has
\* freed: the call reads or writes released storage, and a second close
\* hands the FILE and the object to fclose and free again.  The process may
\* die, or go on with whatever the storage holds.
RawAfterClose(op, crash, r) ==
    /\ pc = "idle"
    /\ zs.st = "freed" /\ zs.held = "raw"
    /\ zs.fcloses < 2
    /\ out' = [Result(op, r) EXCEPT !.uaf = TRUE, !.after = TRUE]
    /\ pc' = IF crash THEN "crashed" ELSE "idle"
    /\ zs' = IF op = "close" THEN [zs EXCEPT !.fcloses = @ + 1, !.zfrees = @ + 1]
             ELSE zs
    /\ UNCHANGED <<file, disk, bi, ex>>

(* ----------------------------- the extractor -------------------------- *)

\* findpoint(): std::upper_bound over the list, then one step back.  The
\* result is the position in the list (1-based) of the point, 0 for NULL.
RECURSIVE LowerBound(_, _, _, _)
\* the bisection with the comparison of std::lower_bound
LowerBound(list, offset, first, len) ==
    IF ~(0 < len) THEN first
    ELSE LET half == len \div 2
             middle == first + half
         IN  IF offset <= list[middle + 1].out
             THEN LowerBound(list, offset, first, half)
             ELSE LowerBound(list, offset, middle + 1, len - half - 1)

RECURSIVE UpperBound(_, _, _, _)
UpperBound(list, offset, first, len) ==
    IF ~(0 < len) THEN first
    ELSE LET half == len \div 2
             middle == first + half
         IN  IF offset < list[middle + 1].out
             THEN UpperBound(list, offset, first, half)
             ELSE UpperBound(list, offset, middle + 1, len - half - 1)

FindPoint(index, offset) == UpperBound(index.list, offset, 0, index.have)

NoExtract ==
    [len |-> 0, from |-> 0, offset |-> 0, skip |-> FALSE, strm |-> NoStream,
     fpos |-> 0, eof |-> FALSE, ferr |-> FALSE, buf |-> <<>>, fault |-> FALSE,
     at |-> 0, touched |-> FALSE]

\* the byte masked to its low bits instead of shifted
ShiftRightMasked(at, n) == [lo |-> 8 * at, hi |-> 8 * at + 8 - n]

\* ret >> (8 - bits) of the byte read at file offset `at`: the bits of the
\* file that are left, lowest first, as the range [lo, hi) of bit positions
ShiftRight(at, n) == [lo |-> 8 * at + n, hi |-> 8 * at + 8]

\* the block that starts at bit position pos, 0 if none does
BlockAt(f, pos) ==
    IF \E j \in 1..NBlocks(f) : BlockStart(f, j) = pos
    THEN CHOOSE j \in 1..NBlocks(f) : BlockStart(f, j) = pos
    ELSE 0

\* inflatePrime(&strm, bits, value) on a fresh raw inflater whose input will
\* continue at file offset fpos: decoding starts at the first primed bit, and
\* makes sense only if the primed bits run up to the input and a block starts
\* there.
InflatePrime(f, s, bits, value, fpos) ==
    LET start == value.lo
        j == BlockAt(f, start)
    IN  IF value.hi - value.lo = bits /\ value.hi = 8 * fpos /\ j # 0
        THEN [s EXCEPT !.pos = start, !.blk = j - 1, !.mode = "TYPEDO"]
        ELSE [s EXCEPT !.pos = start, !.mode = "BAD"]

\* a fresh raw inflater that is not primed: decoding starts at the first
\* bit of the byte at fpos
Unprimed(f, s, fpos) ==
    LET j == BlockAt(f, 8 * fpos)
    IN  IF j # 0 THEN [s EXCEPT !.pos = 8 * fpos, !.blk = j - 1, !.mode = "TYPEDO"]
        ELSE [s EXCEPT !.pos = 8 * fpos, !.mode = "BAD"]

\* inflateSetDictionary(&strm, window, WINSIZE)
InflateSetDictionary(s, window) == [s EXCEPT !.hist = window]

\* extract without the test of skip in its result
ExtractResultNoSkip(skip, len, avail_out) == len - avail_out

\* ret = skip ? 0 : len - strm.avail_out
ExtractResult(skip, len, avail_out) == IF skip THEN 0 ELSE len - avail_out

\* seekgzip_read adding every result to the cursor, errors included
ReadReturnAlways(frame, ret, inits, ends) ==
    /\ out' = [Result("read", ret) EXCEPT
                  !.data = IF ret > 0 THEN SubSeq(frame.buf, 1, ret) ELSE <<>>,
                  !.arg = frame.len, !.from = frame.from,
                  !.inits = inits, !.ends = ends, !.fault = frame.fault]
    /\ zs' = [zs EXCEPT !.offset = @ + ret, !.ferr = frame.ferr]
    /\ ex' = NoExtract
    /\ pc' = "idle"
    /\ UNCHANGED <<file, disk, bi>>

\* ret = buffer: the bytes of a char array up to its first zero
CString(bytes) ==
    LET zeros == {i \in 1..Len(bytes) : bytes[i] = 0}
    IN  IF zeros = {} THEN bytes
        ELSE SubSeq(bytes, 1, (CHOOSE i \in zeros : \A j \in zeros : i <= j) - 1)

\* The string reader::read returns after seekgzip_read wrote buf and returned
\* n: buffer[n] = 0 ends the array at n when n is not negative; otherwise
\* the zero lands before the array, and the string runs over what extract
\* wrote and on into storage that was never written (g).
ReaderString(buf, n, g) ==
    IF n >= 0 THEN CString(SubSeq(buf, 1, n)) ELSE CString(buf \o <<g>>)

\* The return of extract through seekgzip_read to the caller: the cursor
\* moves by a positive result only.  When the caller is reader::read, it
\* then ends the buffer and makes its string.
ReadReturn(frame, ret, inits, ends) ==
    /\ \E g \in Garbage :
          /\ (ret >= 0 \/ zs.held # "reader") => g = 0
          /\ out' = [Result("read", ret) EXCEPT
                        !.data = IF ret > 0 THEN SubSeq(frame.buf, 1, ret) ELSE <<>>,
                        !.arg = frame.len, !.from = frame.from,
                        !.inits = inits, !.ends = ends, !.fault = frame.fault,
                        !.at = frame.at, !.touched = frame.touched,
                        !.term = IF zs.held = "reader" THEN ret ELSE 0,
                        !.str = IF zs.held = "reader"
                                THEN ReaderString(frame.buf, ret, g) ELSE <<>>]
    /\ zs' = [zs EXCEPT !.offset = IF 0 < ret THEN @ + ret ELSE @,
                        !.ferr = frame.ferr]
    /\ ex' = NoExtract
    /\ pc' = "idle"
    /\ UNCHANGED <<file, disk, bi>>

\* seekgzip_read / reader::read up to the loop of extract: the lookup, the
\* inflater, the seek, the priming bits, the dictionary.
ReadBegin(size, fault) ==
    /\ pc = "idle"
    /\ Live
    /\ LET at == IF size < 0 THEN 0 ELSE FindPoint(zs.index, zs.offset)
           here == zs.index.list[at]
           early == [NoExtract EXCEPT !.len = size, !.from = zs.offset,
                                      !.ferr = zs.ferr, !.at = at,
                                      !.fault = (fault # "none") \/ zs.ferr]
           frame == [early EXCEPT !.touched = TRUE]
           to == here.in - (IF here.bits # 0 THEN 1 ELSE 0)
           fpos == IF here.bits # 0 THEN to + 1 ELSE to
           primed == IF here.bits # 0
                     THEN InflatePrime(file, InflateInit2(-15), here.bits,
                                       ShiftRight(to, 8 - here.bits), fpos)
                     ELSE Unprimed(file, InflateInit2(-15), fpos)
           strm == InflateSetDictionary(primed, here.window)
       IN  IF size < 0 \/ at = 0
           THEN fault = "none" /\ ReadReturn(early, 0, 0, 0)
           ELSE CASE fault = "init" -> ReadReturn(early, Z_MEM_ERROR, 0, 0)
                  [] fault = "seek" -> ReadReturn(frame, -1, 1, 1)
                  [] fault = "getc_eof" ->
                        here.bits # 0 /\ ReadReturn(frame, Z_DATA_ERROR, 1, 1)
                  [] fault = "getc_err" ->
                        /\ here.bits # 0
                        /\ ReadReturn([frame EXCEPT !.ferr = TRUE], Z_ERRNO, 1, 1)
                  [] OTHER ->
                        /\ ex' = [frame EXCEPT !.strm = strm, !.fpos = fpos,
                                               !.offset = zs.offset - here.out,
                                               !.skip = TRUE]
                        /\ pc' = "ex_loop"
                        /\ out' = NoResult
                        /\ UNCHANGED <<file, disk, bi, zs>>

\* One pass of the inner loop of extract, with the head of the outer loop
\* before it when the pass is the first of an outer pass, and the exit of
\* the loops after it: where output goes, fread when input ran out,
\* inflate, and the result.  k is what fread returns.
ExtractStep(k, fault) ==
    /\ pc \in {"ex_loop", "ex_inner"}
    /\ LET top == pc = "ex_loop"
           arrive == top /\ ex.offset = 0 /\ ex.skip
           skip == IF arrive THEN FALSE ELSE ex.skip
           s0 == IF arrive THEN [ex.strm EXCEPT !.avail_out = ex.len] ELSE ex.strm
           s1 == IF top /\ ex.offset > WINSIZE THEN [s0 EXCEPT !.avail_out = WINSIZE]
                 ELSE IF top /\ ex.offset # 0 THEN [s0 EXCEPT !.avail_out = ex.offset]
                 ELSE s0
           offset == IF top /\ ex.offset > WINSIZE THEN ex.offset - WINSIZE
                     ELSE IF top THEN 0 ELSE ex.offset
           reads == s1.avail_in = 0
           full == Min(CHUNK, FileBytes(file) - ex.fpos)
           s2 == IF reads THEN [s1 EXCEPT !.avail_in = k, !.next_in = ex.fpos] ELSE s1
           ferr == ex.ferr \/ fault = "ferror"
           r == Inflate(file, s2, Z_NO_FLUSH)
           ret0 == CASE fault = "data" -> Z_DATA_ERROR
                     [] fault = "mem" -> Z_MEM_ERROR
                     [] OTHER -> r.ret
           ret == IF ret0 = Z_NEED_DICT THEN Z_DATA_ERROR ELSE ret0
           frame == [ex EXCEPT !.strm = r.strm, !.offset = offset, !.skip = skip,
                               !.fpos = IF reads THEN @ + k ELSE @,
                               !.eof = @ \/ (reads /\ k < full),
                               !.ferr = ferr,
                               !.buf = IF skip THEN @ ELSE @ \o r.out,
                               !.fault = @ \/ fault # "none" \/ (reads /\ k < full)]
           before == [ex EXCEPT !.offset = offset, !.skip = skip, !.ferr = ferr,
                                !.fault = @ \/ fault # "none" \/ (reads /\ k < full)]
       IN  /\ IF reads THEN k \in 0..full /\ (ex.eof => k = 0) ELSE k = 0
           /\ fault = "ferror" => reads
           /\ IF reads /\ ferr THEN ReadReturn(before, Z_ERRNO, 1, 1)
              ELSE IF reads /\ k = 0 THEN ReadReturn(before, Z_DATA_ERROR, 1, 1)
              ELSE IF ret \in {Z_MEM_ERROR, Z_DATA_ERROR} THEN ReadReturn(frame, ret, 1, 1)
              ELSE IF ret = Z_STREAM_END \/ (r.strm.avail_out = 0 /\ ~skip)
              THEN ReadReturn(frame, ExtractResult(skip, ex.len, r.strm.avail_out), 1, 1)
              ELSE /\ ex' = frame
                   /\ pc' = IF r.strm.avail_out # 0 THEN "ex_inner" ELSE "ex_loop"
                   /\ UNCHANGED <<file, disk, bi, zs, out>>

Init ==
    /\ file \in Files
    /\ disk = NoFile
    /\ pc = "idle"
    /\ bi = NoBuild
    /\ ex = NoExtract
    /\ zs = NoSession
    /\ out = NoResult

BuildNext ==
    \/ \E g \in Garbage, fault \in {"none", "fopen", "init"} : BuildBegin(g, fault)
    \/ \E k \in 0..CHUNK, fault \in {"none", "ferror"} : BuildFread(k, fault)
    \/ \E fault \in {"none", "data", "dict", "mem", "nomem"} : BuildInflate(fault)
    \/ \E fault \in {"none", "nomem", "gzopen", "realloc"} : BuildEnd(fault)

SpecBuild == Init /\ [][BuildNext]_vars

\* cursors the owner seeks to: from before the start to past the end
Offsets == -1..(StreamLen(file) + MaxPast)
Sizes == -1..MaxSize
Ops == {"seek", "tell", "read", "close"}

Next ==
    \/ BuildNext
    \/ \E idx \in {disk} \cup ForeignIdx, wantcode \in BOOLEAN,
          fault \in {"none", "fopen", "nomem_name", "gzopen", "nomem_zs",
                     "nomem_list", "gzclose"} : Open(idx, fault, wantcode)
    \/ \E o \in Offsets : Seek(o)
    \/ Tell
    \/ \E how \in {"raw", "reader"} : Close(how)
    \/ \E op \in Ops : ReaderAfterClose(op)
    \/ \E op \in Ops, crash \in BOOLEAN, r \in {0, Z_ERRNO} : RawAfterClose(op, crash, r)
    \/ \E size \in Sizes, fault \in {"none", "init", "seek", "getc_eof", "getc_err"} :
          ReadBegin(size, fault)
    \/ \E k \in 0..CHUNK, fault \in {"none", "ferror", "data", "mem"} :
          ExtractStep(k, fault)

Spec == Init /\ [][Next]_vars

(* The builder over streams whose blocks are long enough for a point to be *)
(* due with the write cursor at the start and in the middle of the ring:    *)
(* blocks of up to SPAN + WINSIZE + 1 bytes.                                *)
WideFiles ==
    {[blocks |-> b, refs |-> r] :
        b \in (SeqsUpTo(0..(SPAN + WINSIZE + 1), MaxBlocks) \ {<<>>}),
        r \in BOOLEAN}

InitWide ==
    /\ file \in WideFiles
    /\ disk = NoFile
    /\ pc = "idle"
    /\ bi = NoBuild
    /\ ex = NoExtract
    /\ zs = NoSession
    /\ out = NoResult

SpecWide == InitWide /\ [][BuildNext]_vars

(* A session opened on an index file that holds any list of points ordered *)
(* by out, as seekgzip_open reads it back without looking at the stream:    *)
(* the lookup of extract over every such list.                              *)

\* the lists of up to MaxPoints points whose out never decreases
OrderedLists ==
    {[i \in 1..Len(o) |-> [out |-> o[i], in |-> HDRBYTES, bits |-> 0,
                           window |-> [k \in 1..WINSIZE |-> 0]]] :
        o \in {t \in SeqsUpTo(0..MaxPoints, MaxPoints) \ {<<>>} :
                  \A i \in 1..(Len(t) - 1) : t[i] <= t[i + 1]}}

InitFind ==
    /\ file = [blocks |-> <<MaxBlockLen>>, refs |-> FALSE]
    /\ disk = NoFile
    /\ pc = "idle"
    /\ bi = NoBuild
    /\ ex = NoExtract
    /\ \E list \in OrderedLists :
          zs = [NoSession EXCEPT !.st = "open",
                                 !.index = [null |-> FALSE, have |-> Len(list),
                                            size |-> Len(list), list |-> list]]
    /\ out = NoResult

NextFind ==
    \/ \E o \in Offsets : Seek(o)
    \/ \E size \in Sizes : ReadBegin(size, "none")
    \/ \E k \in 0..CHUNK : ExtractStep(k, "none")

SpecFind == InitFind /\ [][NextFind]_vars

(* A reader of export.cpp over an index that seekgzip_build wrote: its     *)
(* constructor, seek, read and close, with a seek that fails and a stream  *)
(* found corrupt as the failures of a read.                                *)
NextReader ==
    \/ \E g \in Garbage : BuildBegin(g, "none")
    \/ \E k \in 0..CHUNK : BuildFread(k, "none")
    \/ BuildInflate("none")
    \/ BuildEnd("none")
    \/ ReaderNew(disk, "none")
    \/ \E o \in Offsets : Seek(o)
    \/ \E size \in Sizes, fault \in {"none", "seek"} : ReadBegin(size, fault)
    \/ \E k \in 0..CHUNK, fault \in {"none", "data"} : ExtractStep(k, fault)
    \/ Close("reader")
    \/ \E op \in Ops : ReaderAfterClose(op)

SpecReader == Init /\ [][NextReader]_vars

(* ------------------------------- the claims --------------------------- *)

\* the points build_index has collected so far
Points == bi.index.list

\* a read made on an open session has just returned
ReadReturned == out.op = "read" /\ ~out.after

\* C1: a read of L >= 0 bytes at a cursor p >= 0 that meets no failure of
\* the environment returns n = max(0, min(L, S - p)) and delivers exactly
\* the bytes D[p .. p + n) of the decompressed stream, whichever access
\* point it started from.
ReadDelivers ==
    (ReadReturned /\ ~out.fault /\ out.arg >= 0 /\ out.from >= 0) =>
        LET n == Max(0, Min(out.arg, StreamLen(file) - out.from))
        IN  /\ out.ret = n
            /\ out.data = [i \in 1..n |-> Decompressed(file)[out.from + i]]

\* a read that started inside a block reached through a point with bits in
\* 1..7, skipped bytes, used the window and delivered something
ReadDeliversWitness ==
    /\ ReadReturned /\ ~out.fault /\ out.ret >= 1 /\ file.refs
    /\ LET at == FindPoint(zs.index, out.from)
       IN  /\ at > 1
           /\ zs.index.list[at].bits \in 1..7
           /\ out.from > zs.index.list[at].out

\* C2: a read that returns n > 0 has moved the cursor by exactly n, a read
\* that returns 0 or an error code has left it where it was, a read started
\* at or before the end never leaves it past the end, and tell returns the
\* cursor.
CursorMoves ==
    /\ ReadReturned =>
          /\ out.ret > 0 => zs.offset = out.from + out.ret
          /\ out.ret <= 0 => zs.offset = out.from
          /\ out.from <= StreamLen(file) => zs.offset <= StreamLen(file)
    /\ (out.op = "tell" /\ ~out.after) => out.ret = zs.offset

\* a read cut short by an error of the environment after a seek
CursorMovesWitness ==
    ReadReturned /\ out.ret < 0 /\ out.from > 0 /\ out.arg > 0

\* C3: seek stores its argument as the cursor without clamping it, and a
\* read at a cursor at or past the end that meets no failure returns 0 and
\* leaves the cursor where it was.
PastEnd ==
    /\ (out.op = "seek" /\ ~out.after) => zs.offset = out.arg
    /\ (ReadReturned /\ ~out.fault /\ out.from >= StreamLen(file)) =>
          (out.ret = 0 /\ zs.offset = out.from)

\* a read of some bytes at a cursor beyond the end
PastEndWitness ==
    /\ ReadReturned /\ ~out.fault /\ out.arg > 0
    /\ out.from > StreamLen(file) /\ zs.offset = out.from

\* C4 as stated: the points of the index are strictly increasing in out,
\* and each has bits in [0, 7].
PointsStrictlyIncrease ==
    /\ \A i \in 1..(Len(Points) - 1) : Points[i].out < Points[i + 1].out
    /\ \A i \in 1..Len(Points) : Points[i].bits \in 0..7

\* C4: the points of the index never decrease in out, two neighbours have
\* the same out only where that out is 0 (the boundary after the header
\* and the boundaries of blocks without output that follow it), and each
\* point has bits in [0, 7].
PointsIncrease ==
    /\ \A i \in 1..(Len(Points) - 1) :
          \/ Points[i].out < Points[i + 1].out
          \/ Points[i].out = 0 /\ Points[i + 1].out = 0
    /\ \A i \in 1..Len(Points) : Points[i].bits \in 0..7

\* a finished index with a point inside a byte after a point at the start
PointsIncreaseWitness ==
    /\ pc = "bi_end" /\ Len(Points) >= 2
    /\ Points[2].out > 0 /\ Points[2].bits \in 1..7

\* C5: once build_index is past the header of the stream the index holds a
\* point, its first point has out = 0, and a successful build ends with at
\* least one point.
FirstPoint ==
    /\ (pc \in {"bi_fread", "bi_inflate", "bi_end"} /\ bi.calls > 0
          /\ bi.strm.mode # "HEAD") =>
          (~bi.index.null /\ bi.index.have >= 1 /\ Points[1].out = 0)
    /\ (out.op = "build" /\ out.ret = SEEKGZIP_SUCCESS) => out.arg >= 1

\* a build that succeeded on a stream whose first block has no output
FirstPointWitness ==
    /\ out.op = "build" /\ out.ret = SEEKGZIP_SUCCESS
    /\ file.blocks[1] = 0

\* C6: a failed build reports the kind of its failure: a read error for an
\* I/O error on the compressed file, a data error for a malformed or
\* truncated stream, out of memory for a failed allocation.
BuildReportsKind ==
    (out.op = "build" /\ out.fault) =>
        /\ out.cause = "ferror" => out.ret = SEEKGZIP_READERROR
        /\ out.cause \in {"data", "dict", "truncated"} =>
              out.ret = SEEKGZIP_DATAERROR
        /\ out.cause \in {"mem", "nomem", "init"} =>
              out.ret = SEEKGZIP_OUTOFMEMORY

OpenIncompatible ==
    (out.op = "open" /\ out.gzopened = 1
       /\ (~(\A i \in 1..4 : Len(out.data) >= i /\ out.data[i] = Magic[i])
            \/ out.data[5] # OFFSIZE)) =>
        /\ out.null /\ out.ret = SEEKGZIP_IMCOMPATIBLE
        /\ out.coded => out.code = SEEKGZIP_IMCOMPATIBLE
        /\ out.opened = 1 /\ out.closed = 1 /\ out.gzclosed = 1
        /\ zs.st = "none"

\* an open refused for the recorded size alone
OpenIncompatibleWitness ==
    /\ out.op = "open" /\ out.gzopened = 1 /\ out.coded
    /\ Len(out.data) >= 5 /\ MagicOk(out.data) /\ out.data[5] # OFFSIZE

\* the last return of inflate in build_index was at the end of a block
\* that is not the last
AtBoundary == Bit7(bi.strm.data_type) /\ ~Bit6(bi.strm.data_type)

\* inflate has returned to build_index's loop, which goes on
InflateReturned == pc \in {"bi_fread", "bi_inflate"} /\ bi.calls > 0

\* C9 as stated: a point is added after a return of inflate exactly when
\* the return is at a block boundary, the block is not the last, and
\* totout = 0 or totout - last >= span.
EmitsAtSpan ==
    InflateReturned =>
        (bi.emitted <=>
            (AtBoundary /\ (bi.totout = 0 \/ bi.totout - bi.before >= bi.span)))

\* C9: a point is added after a return of inflate exactly when the return
\* is at a block boundary, the block is not the last, and totout = 0 or
\* totout - last > span; a boundary at which totout - last equals span adds
\* none.
EmitsPastSpan ==
    InflateReturned =>
        (bi.emitted <=>
            (AtBoundary /\ (bi.totout = 0 \/ bi.totout - bi.before > bi.span)))

\* a point added for the distance alone
EmitsPastSpanWitness ==
    InflateReturned /\ bi.emitted /\ bi.totout - bi.before = bi.span + 1

\* C10: every point lies at the start of a block of the stream, so that
\* decodable data follows it: none is added at the boundary that ends the
\* final block, whatever the distance from the last point.
NoPointAtEnd ==
    \A i \in 1..Len(Points) :
        \E j \in 1..NBlocks(file) :
            /\ 8 * Points[i].in - Points[i].bits = BlockStart(file, j)
            /\ Points[i].out = OutStart(file, j)

\* a finished index whose last point is more than span before the end
NoPointAtEndWitness ==
    /\ pc = "bi_end" /\ Len(Points) >= 1
    /\ bi.totout - bi.last > bi.span
    /\ file.blocks[NBlocks(file)] > 0

\* C11: on a list ordered by out, findpoint returns the point with the
\* greatest out <= offset, the last of them when several share that out,
\* and NULL exactly when offset is less than the first point's out; extract
\* then returns 0 with no inflater initialised and the file untouched.
LookupGreatest ==
    (ReadReturned /\ out.arg >= 0) =>
        LET list == zs.index.list
            at == out.at
        IN  /\ at \in 0..Len(list)
            /\ at = 0 <=> out.from < list[1].out
            /\ at > 0 =>
                  /\ list[at].out <= out.from
                  /\ \A j \in (at + 1)..Len(list) : out.from < list[j].out
            /\ at = 0 =>
                  /\ out.ret = 0 /\ out.inits = 0 /\ out.ends = 0
                  /\ ~out.touched /\ zs.offset = out.from

\* a lookup that met two points of the same out before a later point, and
\* took the second
LookupGreatestWitness ==
    /\ ReadReturned /\ out.arg >= 0 /\ out.at = 2
    /\ Len(zs.index.list) = 3
    /\ zs.index.list[1].out = zs.index.list[2].out
    /\ zs.index.list[2].out < out.from

ReleasedOnce ==
    /\ out.op \in {"build", "build_index"} =>
          /\ out.inits = (IF out.cause \in {"fopen", "init"} THEN 0 ELSE 1)
          /\ out.ends = out.inits
    /\ (out.op = "build" /\ out.fault
          /\ out.cause \notin {"fopen", "init", "nomem", "gzopen"}) =>
          /\ out.frees = (IF out.had > 0 THEN 1 ELSE 0)
          /\ ~out.built /\ ~disk.exists
    /\ (out.op = "build" /\ out.cause = "nomem" /\ ~out.built) =>
          /\ out.frees = (IF out.had > 0 THEN 1 ELSE 0)
          /\ ~disk.exists
    /\ ReadReturned =>
          /\ out.inits = (IF out.touched THEN 1 ELSE 0)
          /\ out.ends = out.inits
          /\ (out.arg >= 0 /\ out.at > 0 /\ out.ret # Z_MEM_ERROR) => out.touched

\* a build that failed in addpoint when the list had to grow
ReleasedOnceWitness ==
    /\ out.op = "build" /\ out.cause = "nomem" /\ ~out.built
    /\ out.had >= 1 /\ out.frees = 1 /\ out.ends = 1

\* C14: whatever seekgzip_read returned, reader::read wrote its
\* terminating zero at an index within [0, size] of the buffer of size + 1
\* bytes, and the string it returns is as long as the distance the cursor
\* moved.
ReaderReadTerminates ==
    (ReadReturned /\ zs.held = "reader") =>
        /\ out.term \in 0..out.arg
        /\ Len(out.str) = zs.offset - out.from

====
